---- MODULE Spec2Model ----
(***************************************************************************)
(* Model of drawcustom's icon element handlers                             *)
(* (src/src/drawcustom/elements/icons.py): the lazily built MDI icon       *)
(* index, the icon rasterizer, the icon and icon_sequence handlers, and    *)
(* the collaborators they call (registry dispatch, coordinate and colour   *)
(* resolvers, inline colour-tag text parser).                              *)
(*                                                                         *)
(* A dispatch runs in steps, from one access of what callers share (the    *)
(* module global _mdi_index, the metadata file, the font file) to the      *)
(* next.  In Spec one orchestrator dispatches element after element while  *)
(* the asset files may change at any step; in SpecLayout the assets are    *)
(* intact; in SpecThreads two callers of a concurrent host interleave.     *)
(*                                                                         *)
(* Python strings that the code inspects character by character (icon      *)
(* names, codepoints, error messages, tagged text) are sequences of        *)
(* one-character strings.  Strings that are only compared for equality     *)
(* (anchor, direction, colour tokens, element type) are TLA+ strings.      *)
(***************************************************************************)
EXTENDS Integers, Sequences, FiniteSets, TLC

VARIABLES
    metadata,   \* content of materialdesignicons-webfont_meta.json (records)
    metaOk,     \* the metadata file can be opened and parsed
    fontOk,     \* the font file can be opened by ImageFont.truetype
    mdi_index,  \* module global _mdi_index: None or dict name -> codepoint
    nReads,     \* number of times the metadata source was opened
    log,        \* warnings emitted through _LOGGER.warning, in order
    thr,        \* per caller: its DrawingContext and where its dispatch is
    text_in,    \* argument of the parse_colored_text call
    text_out,   \* its result: sequence of [text, color] segments
    text_src,   \* the runs and pairs text_in was written from
    text_done   \* parse_colored_text has returned

vars == <<metadata, metaOk, fontOk, mdi_index, nReads, log, thr,
          text_in, text_out, text_src, text_done>>

iconVars == <<metadata, metaOk, fontOk, mdi_index, nReads, log, thr>>

textVars == <<text_in, text_out, text_src, text_done>>

-----------------------------------------------------------------------------
(* Bounds of the model *)

\* dispatches of the orchestrator in the specification Spec
MaxDispatch == 2

\* longest icons list of the specification SpecLayout
MaxIcons == 3

\* most runs and pairs in an input of the text parser
MaxItems == 2

(* Canvas size of the example render *)
CanvasWidth == 296

CanvasHeight == 128

-----------------------------------------------------------------------------
(* Character-level string helpers *)

StartsWith(s, p) ==
    /\ Len(s) >= Len(p)
    /\ SubSeq(s, 1, Len(p)) = p

\* s[n:] of Python (n characters dropped from the front)
DropPrefix(s, n) == SubSeq(s, n + 1, Len(s))

\* needle in hay (Python's substring test)
Contains(hay, needle) ==
    \E i \in 0..(Len(hay) - Len(needle)) :
        SubSeq(hay, i + 1, i + Len(needle)) = needle

MdiPrefix == <<"m", "d", "i", ":">>

NotFoundHead == <<"I", "c", "o", "n", " ", "'">>

NotFoundTail == <<"'", " ", "n", "o", "t", " ", "f", "o", "u", "n", "d", ".", " ", "S", "e", "a", "r", "c", "h", " ", "i", "c", "o", "n", "s", " ", "a", "t", " ", "h", "t", "t", "p", "s", ":", "/", "/", "p", "i", "c", "t", "o", "g", "r", "a", "m", "m", "e", "r", "s", ".", "c", "o", "m", "/", "l", "i", "b", "r", "a", "r", "y", "/", "m", "d", "i", "/">>

InvalidCpHead == <<"I", "n", "v", "a", "l", "i", "d", " ", "c", "o", "d", "e", "p", "o", "i", "n", "t", " ", "f", "o", "r", " ", "i", "c", "o", "n", " ", "'">>

\* the text of the underlying OS / JSON error follows these prefixes
MetaFailHead == <<"F", "a", "i", "l", "e", "d", " ", "t", "o", " ", "l", "o", "a", "d", " ", "M", "D", "I", " ", "m", "e", "t", "a", "d", "a", "t", "a", ":", " ">>

FontFailHead == <<"F", "a", "i", "l", "e", "d", " ", "t", "o", " ", "l", "o", "a", "d", " ", "M", "D", "I", " ", "f", "o", "n", "t", ":", " ">>

-----------------------------------------------------------------------------
(* Exceptions: the Python exception type, which raise site, the message *)

NoExc == [type |-> "", kind |-> "", msg |-> <<>>]

Exc(type, kind, msg) == [type |-> type, kind |-> kind, msg |-> msg]

Raised(x) == x.type # ""

-----------------------------------------------------------------------------
(* Python values of an icon name: a str, or something that is not a str *)

PyStr(s) == [t |-> "str", s |-> s]

PyInt == [t |-> "int", s |-> <<>>]

-----------------------------------------------------------------------------
(* _get_mdi_index: the cached name -> codepoint index *)

IndexNone == [isNone |-> TRUE, d |-> <<>>]

IndexOf(d) == [isNone |-> FALSE, d |-> d]

\* d[k] = v on a dict
DictSet(d, k, v) == [x \in (DOMAIN d) \cup {k} |-> IF x = k THEN v ELSE d[x]]

(* The loop of lines 50-58 fills the dict of the module global in place,    *)
(* one store at a time.  A position of the loop is the record k it is at    *)
(* and j: 0 before the record's name is stored, otherwise the alias that    *)
(* is next.  done: the loop has ended, normally or with the exception exc.  *)
BuildPos(d, k, j, exc, done) == [d |-> d, k |-> k, j |-> j, exc |-> exc, done |-> done]

\* lines 51-54 and the start of the alias loop: icon.get fails on a record
\* that is not a dict, iterating null aliases raises after the name is stored
RecordStep(d, icon, k) ==
    IF ~icon.isDict
    THEN BuildPos(d, k, 0, Exc("AttributeError", "build", <<>>), TRUE)
    ELSE IF icon.name # <<>> /\ icon.codepoint # <<>>
    THEN IF icon.aliasesNull
         THEN BuildPos(DictSet(d, icon.name, icon.codepoint), k, 0,
                       Exc("TypeError", "build", <<>>), TRUE)
         ELSE BuildPos(DictSet(d, icon.name, icon.codepoint), k, 1, NoExc, FALSE)
    ELSE BuildPos(d, k + 1, 0, NoExc, FALSE)

\* lines 56-58 for alias j: if alias: _mdi_index[alias] = codepoint
AliasStep(d, icon, k, j) ==
    IF j > Len(icon.aliases) THEN BuildPos(d, k + 1, 0, NoExc, FALSE)
    ELSE BuildPos(IF icon.aliases[j] # <<>>
                  THEN DictSet(d, icon.aliases[j], icon.codepoint) ELSE d,
                  k, j + 1, NoExc, FALSE)

\* one step of the loop from position (k, j) on the dict d
BuildStep(d, meta, k, j) ==
    IF k > Len(meta) THEN BuildPos(d, k, j, NoExc, TRUE)
    ELSE IF j = 0 THEN RecordStep(d, meta[k], k)
    ELSE AliasStep(d, meta[k], k, j)

\* A plausible bug: the cache test of line 35 is missing.
CachedNever(idx) == FALSE

\* if _mdi_index is not None: return _mdi_index
Cached(idx) == ~idx.isNone

-----------------------------------------------------------------------------
(* _render_mdi_icon *)

(* chr(int(codepoint, 16)), line 93.  A character of the codepoint string   *)
(* is a one-character string when it is printable ASCII, "\t", "\n", "\r"  *)
(* or "\f"; any other character is written by its code point, "U+000B",    *)
(* "U+0664".  The tables are those of the Unicode database of CPython 3.11 *)
(* (Unicode 14.0).                                                         *)

HexDigits == <<"0", "1", "2", "3", "4", "5", "6", "7", "8", "9",
               "a", "b", "c", "d", "e", "f">>

HexUpper == <<"0", "1", "2", "3", "4", "5", "6", "7", "8", "9",
              "A", "B", "C", "D", "E", "F">>

IsHexDigit(c) == \E i \in 1..16 : HexDigits[i] = c \/ HexUpper[i] = c

HexDigitValue(c) == (CHOOSE i \in 1..16 : HexDigits[i] = c \/ HexUpper[i] = c) - 1

\* the whitespace int() skips at both ends of an ASCII string
AsciiSpaces == {" ", "\t", "\n", "\r", "\f", "U+000B"}

\* the characters above U+007F for which str.isspace() holds
UnicodeSpaces ==
    {"U+0085", "U+00A0", "U+1680", "U+2000", "U+2001", "U+2002", "U+2003",
     "U+2004", "U+2005", "U+2006", "U+2007", "U+2008", "U+2009", "U+200A",
     "U+2028", "U+2029", "U+202F", "U+205F", "U+3000"}

\* the decimal digits above U+007F (category Nd), one row per script, the
\* digit of value v at position v + 1
UnicodeDigits ==
    <<
       <<"U+0660", "U+0661", "U+0662", "U+0663", "U+0664", "U+0665", "U+0666", "U+0667", "U+0668", "U+0669">>,
       <<"U+06F0", "U+06F1", "U+06F2", "U+06F3", "U+06F4", "U+06F5", "U+06F6", "U+06F7", "U+06F8", "U+06F9">>,
       <<"U+07C0", "U+07C1", "U+07C2", "U+07C3", "U+07C4", "U+07C5", "U+07C6", "U+07C7", "U+07C8", "U+07C9">>,
       <<"U+0966", "U+0967", "U+0968", "U+0969", "U+096A", "U+096B", "U+096C", "U+096D", "U+096E", "U+096F">>,
       <<"U+09E6", "U+09E7", "U+09E8", "U+09E9", "U+09EA", "U+09EB", "U+09EC", "U+09ED", "U+09EE", "U+09EF">>,
       <<"U+0A66", "U+0A67", "U+0A68", "U+0A69", "U+0A6A", "U+0A6B", "U+0A6C", "U+0A6D", "U+0A6E", "U+0A6F">>,
       <<"U+0AE6", "U+0AE7", "U+0AE8", "U+0AE9", "U+0AEA", "U+0AEB", "U+0AEC", "U+0AED", "U+0AEE", "U+0AEF">>,
       <<"U+0B66", "U+0B67", "U+0B68", "U+0B69", "U+0B6A", "U+0B6B", "U+0B6C", "U+0B6D", "U+0B6E", "U+0B6F">>,
       <<"U+0BE6", "U+0BE7", "U+0BE8", "U+0BE9", "U+0BEA", "U+0BEB", "U+0BEC", "U+0BED", "U+0BEE", "U+0BEF">>,
       <<"U+0C66", "U+0C67", "U+0C68", "U+0C69", "U+0C6A", "U+0C6B", "U+0C6C", "U+0C6D", "U+0C6E", "U+0C6F">>,
       <<"U+0CE6", "U+0CE7", "U+0CE8", "U+0CE9", "U+0CEA", "U+0CEB", "U+0CEC", "U+0CED", "U+0CEE", "U+0CEF">>,
       <<"U+0D66", "U+0D67", "U+0D68", "U+0D69", "U+0D6A", "U+0D6B", "U+0D6C", "U+0D6D", "U+0D6E", "U+0D6F">>,
       <<"U+0DE6", "U+0DE7", "U+0DE8", "U+0DE9", "U+0DEA", "U+0DEB", "U+0DEC", "U+0DED", "U+0DEE", "U+0DEF">>,
       <<"U+0E50", "U+0E51", "U+0E52", "U+0E53", "U+0E54", "U+0E55", "U+0E56", "U+0E57", "U+0E58", "U+0E59">>,
       <<"U+0ED0", "U+0ED1", "U+0ED2", "U+0ED3", "U+0ED4", "U+0ED5", "U+0ED6", "U+0ED7", "U+0ED8", "U+0ED9">>,
       <<"U+0F20", "U+0F21", "U+0F22", "U+0F23", "U+0F24", "U+0F25", "U+0F26", "U+0F27", "U+0F28", "U+0F29">>,
       <<"U+1040", "U+1041", "U+1042", "U+1043", "U+1044", "U+1045", "U+1046", "U+1047", "U+1048", "U+1049">>,
       <<"U+1090", "U+1091", "U+1092", "U+1093", "U+1094", "U+1095", "U+1096", "U+1097", "U+1098", "U+1099">>,
       <<"U+17E0", "U+17E1", "U+17E2", "U+17E3", "U+17E4", "U+17E5", "U+17E6", "U+17E7", "U+17E8", "U+17E9">>,
       <<"U+1810", "U+1811", "U+1812", "U+1813", "U+1814", "U+1815", "U+1816", "U+1817", "U+1818", "U+1819">>,
       <<"U+1946", "U+1947", "U+1948", "U+1949", "U+194A", "U+194B", "U+194C", "U+194D", "U+194E", "U+194F">>,
       <<"U+19D0", "U+19D1", "U+19D2", "U+19D3", "U+19D4", "U+19D5", "U+19D6", "U+19D7", "U+19D8", "U+19D9">>,
       <<"U+1A80", "U+1A81", "U+1A82", "U+1A83", "U+1A84", "U+1A85", "U+1A86", "U+1A87", "U+1A88", "U+1A89">>,
       <<"U+1A90", "U+1A91", "U+1A92", "U+1A93", "U+1A94", "U+1A95", "U+1A96", "U+1A97", "U+1A98", "U+1A99">>,
       <<"U+1B50", "U+1B51", "U+1B52", "U+1B53", "U+1B54", "U+1B55", "U+1B56", "U+1B57", "U+1B58", "U+1B59">>,
       <<"U+1BB0", "U+1BB1", "U+1BB2", "U+1BB3", "U+1BB4", "U+1BB5", "U+1BB6", "U+1BB7", "U+1BB8", "U+1BB9">>,
       <<"U+1C40", "U+1C41", "U+1C42", "U+1C43", "U+1C44", "U+1C45", "U+1C46", "U+1C47", "U+1C48", "U+1C49">>,
       <<"U+1C50", "U+1C51", "U+1C52", "U+1C53", "U+1C54", "U+1C55", "U+1C56", "U+1C57", "U+1C58", "U+1C59">>,
       <<"U+A620", "U+A621", "U+A622", "U+A623", "U+A624", "U+A625", "U+A626", "U+A627", "U+A628", "U+A629">>,
       <<"U+A8D0", "U+A8D1", "U+A8D2", "U+A8D3", "U+A8D4", "U+A8D5", "U+A8D6", "U+A8D7", "U+A8D8", "U+A8D9">>,
       <<"U+A900", "U+A901", "U+A902", "U+A903", "U+A904", "U+A905", "U+A906", "U+A907", "U+A908", "U+A909">>,
       <<"U+A9D0", "U+A9D1", "U+A9D2", "U+A9D3", "U+A9D4", "U+A9D5", "U+A9D6", "U+A9D7", "U+A9D8", "U+A9D9">>,
       <<"U+A9F0", "U+A9F1", "U+A9F2", "U+A9F3", "U+A9F4", "U+A9F5", "U+A9F6", "U+A9F7", "U+A9F8", "U+A9F9">>,
       <<"U+AA50", "U+AA51", "U+AA52", "U+AA53", "U+AA54", "U+AA55", "U+AA56", "U+AA57", "U+AA58", "U+AA59">>,
       <<"U+ABF0", "U+ABF1", "U+ABF2", "U+ABF3", "U+ABF4", "U+ABF5", "U+ABF6", "U+ABF7", "U+ABF8", "U+ABF9">>,
       <<"U+FF10", "U+FF11", "U+FF12", "U+FF13", "U+FF14", "U+FF15", "U+FF16", "U+FF17", "U+FF18", "U+FF19">>,
       <<"U+104A0", "U+104A1", "U+104A2", "U+104A3", "U+104A4", "U+104A5", "U+104A6", "U+104A7", "U+104A8", "U+104A9">>,
       <<"U+10D30", "U+10D31", "U+10D32", "U+10D33", "U+10D34", "U+10D35", "U+10D36", "U+10D37", "U+10D38", "U+10D39">>,
       <<"U+11066", "U+11067", "U+11068", "U+11069", "U+1106A", "U+1106B", "U+1106C", "U+1106D", "U+1106E", "U+1106F">>,
       <<"U+110F0", "U+110F1", "U+110F2", "U+110F3", "U+110F4", "U+110F5", "U+110F6", "U+110F7", "U+110F8", "U+110F9">>,
       <<"U+11136", "U+11137", "U+11138", "U+11139", "U+1113A", "U+1113B", "U+1113C", "U+1113D", "U+1113E", "U+1113F">>,
       <<"U+111D0", "U+111D1", "U+111D2", "U+111D3", "U+111D4", "U+111D5", "U+111D6", "U+111D7", "U+111D8", "U+111D9">>,
       <<"U+112F0", "U+112F1", "U+112F2", "U+112F3", "U+112F4", "U+112F5", "U+112F6", "U+112F7", "U+112F8", "U+112F9">>,
       <<"U+11450", "U+11451", "U+11452", "U+11453", "U+11454", "U+11455", "U+11456", "U+11457", "U+11458", "U+11459">>,
       <<"U+114D0", "U+114D1", "U+114D2", "U+114D3", "U+114D4", "U+114D5", "U+114D6", "U+114D7", "U+114D8", "U+114D9">>,
       <<"U+11650", "U+11651", "U+11652", "U+11653", "U+11654", "U+11655", "U+11656", "U+11657", "U+11658", "U+11659">>,
       <<"U+116C0", "U+116C1", "U+116C2", "U+116C3", "U+116C4", "U+116C5", "U+116C6", "U+116C7", "U+116C8", "U+116C9">>,
       <<"U+11730", "U+11731", "U+11732", "U+11733", "U+11734", "U+11735", "U+11736", "U+11737", "U+11738", "U+11739">>,
       <<"U+118E0", "U+118E1", "U+118E2", "U+118E3", "U+118E4", "U+118E5", "U+118E6", "U+118E7", "U+118E8", "U+118E9">>,
       <<"U+11950", "U+11951", "U+11952", "U+11953", "U+11954", "U+11955", "U+11956", "U+11957", "U+11958", "U+11959">>,
       <<"U+11C50", "U+11C51", "U+11C52", "U+11C53", "U+11C54", "U+11C55", "U+11C56", "U+11C57", "U+11C58", "U+11C59">>,
       <<"U+11D50", "U+11D51", "U+11D52", "U+11D53", "U+11D54", "U+11D55", "U+11D56", "U+11D57", "U+11D58", "U+11D59">>,
       <<"U+11DA0", "U+11DA1", "U+11DA2", "U+11DA3", "U+11DA4", "U+11DA5", "U+11DA6", "U+11DA7", "U+11DA8", "U+11DA9">>,
       <<"U+16A60", "U+16A61", "U+16A62", "U+16A63", "U+16A64", "U+16A65", "U+16A66", "U+16A67", "U+16A68", "U+16A69">>,
       <<"U+16AC0", "U+16AC1", "U+16AC2", "U+16AC3", "U+16AC4", "U+16AC5", "U+16AC6", "U+16AC7", "U+16AC8", "U+16AC9">>,
       <<"U+16B50", "U+16B51", "U+16B52", "U+16B53", "U+16B54", "U+16B55", "U+16B56", "U+16B57", "U+16B58", "U+16B59">>,
       <<"U+1D7CE", "U+1D7CF", "U+1D7D0", "U+1D7D1", "U+1D7D2", "U+1D7D3", "U+1D7D4", "U+1D7D5", "U+1D7D6", "U+1D7D7">>,
       <<"U+1D7D8", "U+1D7D9", "U+1D7DA", "U+1D7DB", "U+1D7DC", "U+1D7DD", "U+1D7DE", "U+1D7DF", "U+1D7E0", "U+1D7E1">>,
       <<"U+1D7E2", "U+1D7E3", "U+1D7E4", "U+1D7E5", "U+1D7E6", "U+1D7E7", "U+1D7E8", "U+1D7E9", "U+1D7EA", "U+1D7EB">>,
       <<"U+1D7EC", "U+1D7ED", "U+1D7EE", "U+1D7EF", "U+1D7F0", "U+1D7F1", "U+1D7F2", "U+1D7F3", "U+1D7F4", "U+1D7F5">>,
       <<"U+1D7F6", "U+1D7F7", "U+1D7F8", "U+1D7F9", "U+1D7FA", "U+1D7FB", "U+1D7FC", "U+1D7FD", "U+1D7FE", "U+1D7FF">>,
       <<"U+1E140", "U+1E141", "U+1E142", "U+1E143", "U+1E144", "U+1E145", "U+1E146", "U+1E147", "U+1E148", "U+1E149">>,
       <<"U+1E2F0", "U+1E2F1", "U+1E2F2", "U+1E2F3", "U+1E2F4", "U+1E2F5", "U+1E2F6", "U+1E2F7", "U+1E2F8", "U+1E2F9">>,
       <<"U+1E950", "U+1E951", "U+1E952", "U+1E953", "U+1E954", "U+1E955", "U+1E956", "U+1E957", "U+1E958", "U+1E959">>,
       <<"U+1FBF0", "U+1FBF1", "U+1FBF2", "U+1FBF3", "U+1FBF4", "U+1FBF5", "U+1FBF6", "U+1FBF7", "U+1FBF8", "U+1FBF9">>
    >>

UnicodeDigitSet == {UnicodeDigits[r][v] : r \in 1..Len(UnicodeDigits), v \in 1..10}

UnicodeDigitValue ==
    [c \in UnicodeDigitSet |->
        (CHOOSE v \in 1..10 : \E r \in 1..Len(UnicodeDigits) : UnicodeDigits[r][v] = c) - 1]

\* int() first rewrites each character: a Unicode space becomes " ", a
\* Unicode decimal digit becomes its ASCII digit; an ASCII character stays
ToAscii(c) ==
    IF c \in UnicodeSpaces THEN " "
    ELSE IF c \in UnicodeDigitSet THEN HexDigits[UnicodeDigitValue[c] + 1]
    ELSE c

\* leading and trailing whitespace is skipped
RECURSIVE SkipLeading(_)
SkipLeading(s) ==
    IF s # <<>> /\ s[1] \in AsciiSpaces THEN SkipLeading(Tail(s)) ELSE s

RECURSIVE SkipTrailing(_)
SkipTrailing(s) ==
    IF s # <<>> /\ s[Len(s)] \in AsciiSpaces
    THEN SkipTrailing(SubSeq(s, 1, Len(s) - 1)) ELSE s

\* an optional sign
IsNegative(s) == s # <<>> /\ s[1] = "-"

SkipSign(s) == IF s # <<>> /\ s[1] \in {"+", "-"} THEN Tail(s) ELSE s

\* an optional "0x" or "0X", after which one underscore is allowed
SkipHexPrefix(s) ==
    IF Len(s) >= 2 /\ s[1] = "0" /\ s[2] \in {"x", "X"}
    THEN IF Len(s) >= 3 /\ s[3] = "_" THEN DropPrefix(s, 3) ELSE DropPrefix(s, 2)
    ELSE s

\* at least one digit, single underscores only between digits, nothing else
ValidDigits(s) ==
    /\ Len(s) >= 1
    /\ s[1] # "_"
    /\ s[Len(s)] # "_"
    /\ \A i \in 1..Len(s) : s[i] = "_" \/ IsHexDigit(s[i])
    /\ \A i \in 1..(Len(s) - 1) : ~(s[i] = "_" /\ s[i + 1] = "_")

\* the largest value of a C int, the type chr() converts its argument to
MaxCInt == 2147483647

(* The magnitude of a Python int: m itself while it is at most MaxCInt      *)
(* (over = 0); beyond, all chr() tells apart is 2^31 (over = 1) from        *)
(* anything larger (over = 2).                                             *)
Magnitude(m, over) == [m |-> m, over |-> over]

\* acc * 16 + digit
ShiftIn(acc, digit) ==
    IF acc.over = 2 THEN acc
    ELSE IF acc.over = 1 THEN Magnitude(0, 2)
    ELSE IF acc.m <= (MaxCInt - digit) \div 16 THEN Magnitude(acc.m * 16 + digit, 0)
    ELSE IF acc.m = MaxCInt \div 16 + 1 /\ digit = 0 THEN Magnitude(0, 1)
    ELSE Magnitude(0, 2)

RECURSIVE DigitsValue(_, _, _)
DigitsValue(s, i, acc) ==
    IF i > Len(s) THEN acc
    ELSE IF s[i] = "_" THEN DigitsValue(s, i + 1, acc)
    ELSE DigitsValue(s, i + 1, ShiftIn(acc, HexDigitValue(s[i])))

\* the ValueError of a literal that is not valid
InvalidLiteral == [valid |-> FALSE, neg |-> FALSE, mag |-> Magnitude(0, 0)]

\* the Python int of a stripped string: sign, prefix, digits
HexStripped(s) ==
    IF ValidDigits(SkipHexPrefix(SkipSign(s)))
    THEN [valid |-> TRUE, neg |-> IsNegative(s),
          mag |-> DigitsValue(SkipHexPrefix(SkipSign(s)), 1, Magnitude(0, 0))]
    ELSE InvalidLiteral

\* int(s, 16) of a str s
HexToInt(s) == HexStripped(SkipTrailing(SkipLeading([i \in 1..Len(s) |-> ToAscii(s[i])])))

MaxCodePoint == 1114111

ChrValueError == -1

ChrOverflowError == -2

\* chr(n): the character is identified by its code point.  An argument that
\* does not fit a C int raises OverflowError, one outside range(0x110000)
\* raises ValueError; the ValueError of int() passes through.
Chr(n) ==
    IF ~n.valid THEN ChrValueError
    ELSE IF n.mag.over = 2 \/ (n.mag.over = 1 /\ ~n.neg) THEN ChrOverflowError
    ELSE IF n.mag.over = 1 THEN ChrValueError
    ELSE IF n.neg /\ n.mag.m > 0 THEN ChrValueError
    ELSE IF n.mag.m > MaxCodePoint THEN ChrValueError
    ELSE n.mag.m

\* chr(int(codepoint, 16)): a code point, ChrValueError for the ValueError of
\* int() or chr(), ChrOverflowError for the OverflowError of chr()
ChrOfHex(codepoint) == Chr(HexToInt(codepoint))

\* if name.startswith("mdi:"): name = name[4:]
StripPrefix(name) == IF StartsWith(name, MdiPrefix) THEN DropPrefix(name, 4) ELSE name

\* A plausible bug: the message does not name the icon.
NotFoundMsgNoName(name) == NotFoundHead \o NotFoundTail

NotFoundMsg(name) == NotFoundHead \o name \o NotFoundTail

\* What a call of _render_mdi_icon returns (img) or raises (exc)
RenderResult(img, exc) == [img |-> img, exc |-> exc]

-----
(* Element dictionaries: a record holds exactly the keys that are present *)

Has(element, key) == key \in DOMAIN element

\* element.get(key, default)
Get(element, key, default) == IF Has(element, key) THEN element[key] ELSE default

-----------------------------------------------------------------------------
(* Coordinate resolver: ctx.coords.parse_x / parse_y *)

Num(v) == [t |-> "num", v |-> v]

Pct(v) == [t |-> "pct", v |-> v]

BadCoord == [t |-> "bad", v |-> 0]

\* round(n / d) of Python for n >= 0, d > 0: ties go to the even neighbour
RoundHalfEven(n, d) ==
    LET q == n \div d
        r == n % d
    IN  IF 2 * r < d THEN q
        ELSE IF 2 * r > d THEN q + 1
        ELSE IF q % 2 = 0 THEN q ELSE q + 1

\* numeric: used as is; "p%": round(p / 100 * dimension); anything else fails
ParseCoord(tok, dimension) ==
    IF tok.t = "num" THEN [v |-> tok.v, exc |-> NoExc]
    ELSE IF tok.t = "pct" THEN [v |-> RoundHalfEven(tok.v * dimension, 100), exc |-> NoExc]
    ELSE [v |-> 0, exc |-> Exc("InvalidCoordinateError", "coordinate", <<>>)]

-----------------------------------------------------------------------------
(* Colour resolver: ctx.colors.resolve *)

ColorNames == {"black", "white", "red"}

ColorTable(token) ==
    IF token = "black" THEN <<0, 0, 0, 255>>
    ELSE IF token = "white" THEN <<255, 255, 255, 255>>
    ELSE <<255, 0, 0, 255>>

ResolveColor(token) ==
    IF token \in ColorNames THEN [rgba |-> ColorTable(token), exc |-> NoExc]
    ELSE [rgba |-> <<>>, exc |-> Exc("InvalidColorError", "color", <<>>)]

\* Python truthiness of the value element.get("color") returns
\* (None when the key is absent, else the string)
Truthy(element, key) == Has(element, key) /\ element[key] # ""

\* A plausible bug: fill takes precedence over color.
ColorTokenFillFirst(element) ==
    IF Truthy(element, "fill") THEN element["fill"]
    ELSE Get(element, "color", "black")

\* element.get("color") or element.get("fill", "black")
ColorToken(element) ==
    IF Truthy(element, "color") THEN element["color"]
    ELSE Get(element, "fill", "black")

-----------------------------------------------------------------------------
(* Paste origin of the icon handler (the if/elif chain on anchor) *)

KnownAnchors == {"mm", "tl", "tr", "bl", "br", "mt", "mb", "lm", "rm"}

\* A plausible bug: halving rounds up.
PasteOriginCeil(anchor, x, y, size) ==
    LET half == (size + 1) \div 2 IN
    IF anchor = "mm" THEN <<x - half, y - half>>
    ELSE IF anchor = "tl" THEN <<x, y>>
    ELSE IF anchor = "tr" THEN <<x - size, y>>
    ELSE IF anchor = "bl" THEN <<x, y - size>>
    ELSE IF anchor = "br" THEN <<x - size, y - size>>
    ELSE IF anchor = "mt" THEN <<x - half, y>>
    ELSE IF anchor = "mb" THEN <<x - half, y - size>>
    ELSE IF anchor = "lm" THEN <<x, y - half>>
    ELSE IF anchor = "rm" THEN <<x - size, y - half>>
    ELSE <<x, y>>

PasteOrigin(anchor, x, y, size) ==
    IF anchor = "mm" THEN <<x - size \div 2, y - size \div 2>>
    ELSE IF anchor = "tl" THEN <<x, y>>
    ELSE IF anchor = "tr" THEN <<x - size, y>>
    ELSE IF anchor = "bl" THEN <<x, y - size>>
    ELSE IF anchor = "br" THEN <<x - size, y - size>>
    ELSE IF anchor = "mt" THEN <<x - size \div 2, y>>
    ELSE IF anchor = "mb" THEN <<x - size \div 2, y - size>>
    ELSE IF anchor = "lm" THEN <<x, y - size \div 2>>
    ELSE IF anchor = "rm" THEN <<x - size, y - size \div 2>>
    ELSE <<x, y>>

\* ctx.img.paste(icon_img, (paste_x, paste_y), icon_img)
Paste(img, origin) == [glyph |-> img[1], size |-> img[2], color |-> img[3],
                       x |-> origin[1], y |-> origin[2]]

SkipWarning(pyname, err) == [kind |-> "skip", name |-> pyname.s, anchor |-> "", msg |-> err.msg]

AnchorWarning(anchor) == [kind |-> "anchor", name |-> <<>>, anchor |-> anchor, msg |-> <<>>]

-----------------------------------------------------------------------------
(* A caller's dispatch.  A caller record C holds                            *)
(*   pc: where the dispatch is: "idle" none started; "render" at a call of  *)
(*       _render_mdi_icon; "open" past the test of line 35 with the cache   *)
(*       unset; "publish" metadata loaded, before line 49; "fill" in the    *)
(*       loop of lines 50-58 at record k and alias j; "font" before the     *)
(*       font is loaded (line 102); "warn" before the handler logs a        *)
(*       warning (line 165 or 212); "done" dispatch returned or raised;     *)
(*   n: the dispatches the caller started;  elem: the element dispatched;   *)
(*   canvas, pos_y: ctx.img (the pastes applied, in order) and ctx.pos_y,   *)
(*       canvas0, pos_y0: what they were when the dispatch started;         *)
(*   x, y: the parsed position;  i: the entry of element["icons"] the loop  *)
(*       is at;  cx, cy, mx, my: current_x, current_y, max_x, max_y;        *)
(*   hit, looked, read, char: of the render in progress: line 35 found the  *)
(*       cache set, line 84 was reached, the dict it read, the character;   *)
(*   res: what the last _render_mdi_icon call returned or raised, while the *)
(*       handler is about to log a warning;                                 *)
(*   exc: the exception the dispatch ended with;  token: the colour token   *)
(*       given to the resolver;  renders: one entry per _render_mdi_icon    *)
(*       call that ended;  pastes: one entry per ctx.img.paste call;        *)
(*       warned: the warnings the dispatch logged.                          *)

NoToken == "<resolver not called>"

Idle ==
    [pc |-> "idle", n |-> 0, elem |-> [type |-> "none"],
     canvas |-> <<>>, pos_y |-> 0, canvas0 |-> <<>>, pos_y0 |-> 0,
     x |-> 0, y |-> 0, i |-> 0, k |-> 0, j |-> 0,
     cx |-> 0, cy |-> 0, mx |-> 0, my |-> 0,
     hit |-> FALSE, looked |-> FALSE, read |-> <<>>, char |-> 0,
     res |-> RenderResult(<<>>, NoExc), exc |-> NoExc, token |-> NoToken, renders |-> <<>>, pastes |-> <<>>,
     warned |-> <<>>]

\* dispatch(ctx, element) is called on the caller's context
Entered(C, element) ==
    [Idle EXCEPT !.pc = "done", !.n = C.n + 1, !.elem = element,
                 !.canvas = C.canvas, !.pos_y = C.pos_y,
                 !.canvas0 = C.canvas, !.pos_y0 = C.pos_y]

\* the dispatch ends with the exception err
Failed(C, err) == [C EXCEPT !.pc = "done", !.exc = err]

RenderObs(C, pyname, r) ==
    [name |-> pyname, kind |-> IF Raised(r.exc) THEN r.exc.kind ELSE "ok",
     cacheHit |-> C.hit, msg |-> r.exc.msg, looked |-> C.looked, read |-> C.read]

PasteObs(pyname, cx, cy, origin) ==
    [name |-> pyname, cursor |-> <<cx, cy>>, origin |-> origin]

\* the call _render_mdi_icon(pyname, ...) has returned or raised r
Returned(C, pyname, r) ==
    [C EXCEPT !.renders = Append(@, RenderObs(C, pyname, r)),
              !.hit = FALSE, !.looked = FALSE, !.read = <<>>, !.char = 0]

(* draw_icon *)

\* ctx.img.paste(...); ctx.pos_y = paste_y + size
DrawIconPaste(C, anchor, r, origin) ==
    [C EXCEPT !.pc = "done",
              !.canvas = Append(@, Paste(r.img, origin)),
              !.pos_y = origin[2] + C.elem["size"],
              !.warned = IF anchor \in KnownAnchors THEN @
                         ELSE Append(@, AnchorWarning(anchor)),
              !.pastes = <<PasteObs(C.elem["value"], C.x, C.y, origin)>>]

\* after icon_img = _render_mdi_icon(name, size, color)
DrawIconRendered(C, anchor, r) ==
    IF Raised(r.exc) THEN Failed(C, r.exc)
    ELSE DrawIconPaste(C, anchor, r, PasteOrigin(anchor, C.x, C.y, C.elem["size"]))

(* draw_icon_sequence *)

\* Paste origin inside the loop: "mm" is centred, anything else is top-left
SeqPasteOrigin(anchor, x, y, size) ==
    IF anchor = "mm" THEN <<x - size \div 2, y - size \div 2>>
    ELSE <<x, y>>

Max(a, b) == IF a >= b THEN a ELSE b

\* A plausible bug: the spacing is left out of the step.
AdvanceCursorNoSpacing(direction, cx, cy, size, spacing) ==
    IF direction = "right" THEN <<cx + size, cy>>
    ELSE IF direction = "left" THEN <<cx - size, cy>>
    ELSE IF direction = "down" THEN <<cx, cy + size>>
    ELSE IF direction = "up" THEN <<cx, cy - size>>
    ELSE <<cx, cy>>

\* "Move to next position": an unknown direction leaves the cursor in place
AdvanceCursor(direction, cx, cy, size, spacing) ==
    IF direction = "right" THEN <<cx + (size + spacing), cy>>
    ELSE IF direction = "left" THEN <<cx - (size + spacing), cy>>
    ELSE IF direction = "down" THEN <<cx, cy + (size + spacing)>>
    ELSE IF direction = "up" THEN <<cx, cy - (size + spacing)>>
    ELSE <<cx, cy>>

\* paste, track bounds, move to the next position
SeqPaste(L, pyname, size, r, origin, next) ==
    [L EXCEPT !.canvas = Append(@, Paste(r.img, origin)),
              !.pastes = Append(@, PasteObs(pyname, L.cx, L.cy, origin)),
              !.mx = Max(@, origin[1] + size),
              !.my = Max(@, origin[2] + size),
              !.cx = next[1],
              !.cy = next[2]]

\* One pass of the loop from the return of _render_mdi_icon(name, size,
\* color) on, r being what it returned or raised:
\* try / except ValueError: warn and continue / else paste and advance
SeqBody(L, pyname, size, spacing, anchor, direction, r) ==
    IF r.exc.type = "ValueError"
    THEN [L EXCEPT !.warned = Append(@, SkipWarning(pyname, r.exc))]
    ELSE IF Raised(r.exc) THEN [L EXCEPT !.exc = r.exc]
    ELSE SeqPaste(L, pyname, size, r, SeqPasteOrigin(anchor, L.cx, L.cy, size),
                  AdvanceCursor(direction, L.cx, L.cy, size, spacing))

\* for name in element["icons"]: an exception that is not caught leaves the
\* handler; after the last entry ctx.pos_y = max_y; else the next entry is
\* rendered
SeqNext(L) ==
    IF Raised(L.exc) THEN [L EXCEPT !.pc = "done"]
    ELSE IF L.i >= Len(L.elem["icons"]) THEN [L EXCEPT !.pc = "done", !.pos_y = L.my]
    ELSE [L EXCEPT !.pc = "render", !.i = @ + 1]

(* _render_mdi_icon, from the caller's side *)

\* the name the render in progress was called with
CurrentName(C) ==
    IF C.elem["type"] = "icon" THEN C.elem["value"] ELSE C.elem["icons"][C.i]

\* the handler from the return of _render_mdi_icon on, r being what the call
\* returned or raised, up to its next call of _render_mdi_icon or to its end
Handled(C, r) ==
    IF C.elem["type"] = "icon"
    THEN DrawIconRendered(C, Get(C.elem, "anchor", "mm"), r)
    ELSE SeqNext(SeqBody(C, C.elem["icons"][C.i], C.elem["size"],
                         Get(C.elem, "spacing", C.elem["size"] \div 4),
                         Get(C.elem, "anchor", "mm"), Get(C.elem, "direction", "right"),
                         r))

\* the handler's next statement logs a warning: the unknown anchor of line
\* 165 after a render that returned, the skip of line 212 after a ValueError
Warns(C, r) ==
    IF C.elem["type"] = "icon"
    THEN ~Raised(r.exc) /\ Get(C.elem, "anchor", "mm") \notin KnownAnchors
    ELSE r.exc.type = "ValueError"

\* the call returned or raised r: the handler stops before a warning it is
\* about to log, the logger being shared; otherwise it runs on
Rendered(C, r) ==
    IF Warns(C, r)
    THEN [Returned(C, CurrentName(C), r) EXCEPT !.pc = "warn", !.res = r]
    ELSE Handled(Returned(C, CurrentName(C), r), r)

\* lines 92-95: the ValueError of line 93 is raised again as "Invalid
\* codepoint", the OverflowError of chr() is not caught; with a character
\* the render goes on to load the font
RenderChar(C, name, char) ==
    IF char = ChrValueError
    THEN Rendered(C, RenderResult(<<>>, Exc("ValueError", "codepoint",
                                            InvalidCpHead \o name \o <<"'">>)))
    ELSE IF char = ChrOverflowError
    THEN Rendered(C, RenderResult(<<>>, Exc("OverflowError", "chr", <<>>)))
    ELSE [C EXCEPT !.pc = "font", !.char = char]

\* lines 84-89 on the dict d: codepoint = index.get(name); if not codepoint: raise
RenderLookup(C, name, d) ==
    IF name \notin DOMAIN d
    THEN Rendered(C, RenderResult(<<>>, Exc("ValueError", "notfound", NotFoundMsg(name))))
    ELSE RenderChar(C, name, ChrOfHex(d[name]))

\* _get_mdi_index() returned the dict d (line 83)
IndexReturned(C, d) ==
    RenderLookup([C EXCEPT !.looked = TRUE, !.read = d, !.k = 0, !.j = 0],
                 StripPrefix(CurrentName(C).s), d)

\* _get_mdi_index() raised err, which leaves _render_mdi_icon
IndexRaised(C, err) == Rendered([C EXCEPT !.k = 0, !.j = 0], RenderResult(<<>>, err))

\* lines 101-111: load the font, draw the glyph, return the image
RenderGlyph(C) ==
    IF ~fontOk THEN RenderResult(<<>>, Exc("ValueError", "font", FontFailHead))
    ELSE RenderResult(<<C.char, C.elem["size"], ResolveColor(C.token).rgba>>, NoExc)

(* The handlers up to their first call of _render_mdi_icon *)

\* after color = ctx.colors.resolve(...)
DrawIconResolved(C, x, y, token, color) ==
    IF Raised(color.exc) THEN Failed([C EXCEPT !.token = token], color.exc)
    ELSE [C EXCEPT !.token = token, !.x = x, !.y = y, !.pc = "render", !.i = 1]

\* after x = parse_x(...), y = parse_y(...)
DrawIconParsed(C, px, py, token) ==
    IF Raised(px.exc) THEN Failed(C, px.exc)
    ELSE IF Raised(py.exc) THEN Failed(C, py.exc)
    ELSE DrawIconResolved(C, px.v, py.v, token, ResolveColor(token))

DrawIcon(C) ==
    DrawIconParsed(C, ParseCoord(C.elem["x"], CanvasWidth),
                   ParseCoord(C.elem["y"], CanvasHeight), ColorToken(C.elem))

\* after color = ctx.colors.resolve(...):
\* current_x, current_y = x_start, y_start; max_x, max_y = x_start, y_start
DrawIconSequenceResolved(C, x, y, token, color) ==
    IF Raised(color.exc) THEN Failed([C EXCEPT !.token = token], color.exc)
    ELSE SeqNext([C EXCEPT !.token = token, !.x = x, !.y = y, !.i = 0,
                           !.cx = x, !.cy = y, !.mx = x, !.my = y])

\* after x_start = parse_x(...), y_start = parse_y(...)
DrawIconSequenceParsed(C, px, py, token) ==
    IF Raised(px.exc) THEN Failed(C, px.exc)
    ELSE IF Raised(py.exc) THEN Failed(C, py.exc)
    ELSE DrawIconSequenceResolved(C, px.v, py.v, token, ResolveColor(token))

DrawIconSequence(C) ==
    DrawIconSequenceParsed(C, ParseCoord(C.elem["x"], CanvasWidth),
                           ParseCoord(C.elem["y"], CanvasHeight), ColorToken(C.elem))

-----
(* Element handler registry: @element_handler(type, requires=[...]) and     *)
(* dispatch(ctx, element)                                                   *)

IconRequires == <<"x", "y", "value", "size">>

IconSequenceRequires == <<"x", "y", "icons", "size">>

MissingFields(element, requires) ==
    {i \in 1..Len(requires) : ~Has(element, requires[i])}

\* Fails on an unknown type, then on the first missing required field,
\* and only then calls the handler.
DispatchCall(C) ==
    IF C.elem["type"] \notin {"icon", "icon_sequence"}
    THEN Failed(C, Exc("UnknownElementTypeError", "type", <<>>))
    ELSE IF C.elem["type"] = "icon"
    THEN IF MissingFields(C.elem, IconRequires) # {}
         THEN Failed(C, Exc("MissingFieldError", "field", <<>>))
         ELSE DrawIcon(C)
    ELSE IF MissingFields(C.elem, IconSequenceRequires) # {}
         THEN Failed(C, Exc("MissingFieldError", "field", <<>>))
         ELSE DrawIconSequence(C)

-----------------------------------------------------------------------------
(* Inputs: icon names, metadata files, elements *)

home == <<"h", "o", "m", "e">>

house == <<"h", "o", "u", "s", "e">>

cog == <<"c", "o", "g">>

nope == <<"n", "o", "p", "e">>

bad == <<"b", "a", "d">>

bug == <<"b", "u", "g">>

Record(name, codepoint, aliases) ==
    [isDict |-> TRUE, name |-> name, codepoint |-> codepoint,
     aliasesNull |-> FALSE, aliases |-> aliases]

\* a record whose "aliases" is null: iterating it raises TypeError
RecordNullAliases(name, codepoint) ==
    [isDict |-> TRUE, name |-> name, codepoint |-> codepoint,
     aliasesNull |-> TRUE, aliases |-> <<>>]

\* A well-formed metadata file: home (alias house, and an empty alias),
\* a record without a name, and cog.
GoodMetadata ==
    << Record(home, <<"F", "0", "2", "D", "C">>, <<house, <<>> >>),
       Record(<<>>, <<"F", "0", "0", "0", "1">>, <<>>),
       Record(cog, <<"F", "0", "4", "9", "3">>, <<>>) >>

\* A malformed metadata file: a codepoint that is not hexadecimal, and a
\* record with null aliases before the record of cog.
BrokenMetadata ==
    << Record(home, <<"F", "0", "2", "D", "C">>, <<house>>),
       Record(bad, <<"x", "y", "z">>, <<>>),
       RecordNullAliases(bug, <<"F", "0", "0", "E", "4">>),
       Record(cog, <<"F", "0", "4", "9", "3">>, <<>>) >>

\* A metadata file whose codepoints are written the other ways int(.., 16)
\* accepts (prefix, whitespace, underscore, Unicode digits: 0x41), with a
\* sign, and with more digits than a C int holds.
LooseMetadata ==
    << Record(home, <<"0", "x", "F", "0", "2", "D", "C">>, <<>>),
       Record(cog, <<" ", "F", "0", "_", "4", "9", "3", "\n">>, <<>>),
       Record(house, <<"U+0664", "U+0661">>, <<>>),
       Record(bad, <<"-", "4", "1">>, <<>>),
       Record(bug, <<"F", "F", "F", "F", "F", "F", "F", "F", "F">>, <<>>) >>

BaseIcon == [type |-> "icon", x |-> Num(50), y |-> Num(64),
             value |-> PyStr(home), size |-> 9]

BaseSequence == [type |-> "icon_sequence", x |-> Num(10), y |-> Num(20),
                 icons |-> <<PyStr(home), PyStr(cog)>>, size |-> 9]

\* e with key k set to v
With(e, k, v) == [x \in (DOMAIN e) \cup {k} |-> IF x = k THEN v ELSE e[x]]

\* e without key k
Without(e, k) == [x \in (DOMAIN e) \ {k} |-> e[x]]

(* Elements of the specification Spec: names that resolve, are aliases, carry *)
(* the prefix, do not resolve or are not strings; and invalid elements.       *)
IconValues == {PyStr(home), PyStr(MdiPrefix \o home), PyStr(house), PyStr(nope),
               PyStr(MdiPrefix \o nope), PyStr(bad), PyStr(bug), PyStr(cog), PyInt}

IconLists == { <<>>, <<PyStr(home)>>, <<PyStr(nope)>>,
               <<PyStr(home), PyStr(cog)>>,
               <<PyStr(home), PyStr(nope)>>, <<PyStr(nope), PyStr(home)>>,
               <<PyStr(MdiPrefix \o nope), PyStr(cog)>>,
               <<PyStr(home), PyInt>>, <<PyInt, PyStr(home)>>,
               <<PyStr(bad), PyStr(home)>>, <<PyStr(cog), PyStr(bug)>>,
               <<PyStr(home), PyStr(nope), PyStr(cog)>> }

InvalidElements ==
    { [type |-> "rectangle"],
      Without(BaseIcon, "size"),
      Without(BaseSequence, "icons"),
      With(BaseIcon, "x", BadCoord),
      With(BaseSequence, "y", BadCoord),
      With(BaseIcon, "color", "chartreuse"),
      With(BaseSequence, "fill", "chartreuse") }

Elements ==
    {With(BaseIcon, "value", v) : v \in IconValues}
    \cup {With(BaseSequence, "icons", l) : l \in IconLists}
    \cup InvalidElements

-----------------------------------------------------------------------------
(* State machine *)

\* the single-threaded orchestrator
Orchestrator == {"A"}

\* the callers of a host that renders concurrently
Callers == {"A", "B"}

InitText ==
    /\ text_in = <<>>
    /\ text_out = <<>>
    /\ text_src = <<>>
    /\ text_done = FALSE

InitIcons(callers) ==
    /\ mdi_index = IndexNone
    /\ nReads = 0
    /\ log = <<>>
    /\ thr = [t \in callers |-> Idle]

Init ==
    /\ metadata \in {GoodMetadata, BrokenMetadata, LooseMetadata}
    /\ metaOk \in BOOLEAN
    /\ fontOk \in BOOLEAN
    /\ InitIcons(Orchestrator)
    /\ InitText

\* caller t goes on as C, without logging
Step(t, C) ==
    /\ thr' = [thr EXCEPT ![t] = C]
    /\ log' = log

\* dispatch(ctx, element): the registry's checks and the handler up to its
\* first call of _render_mdi_icon, or to its end when it makes none
Begin(t, element) ==
    /\ thr' = [thr EXCEPT ![t] = DispatchCall(Entered(thr[t], element))]
    /\ UNCHANGED <<metadata, metaOk, fontOk, mdi_index, nReads, log, textVars>>

\* the orchestrator dispatches the next element of the render
Dispatch(t, element) ==
    /\ thr[t].pc \in {"idle", "done"}
    /\ thr[t].n < MaxDispatch
    /\ Begin(t, element)

\* a caller dispatches one element on a fresh DrawingContext
Call(t, element) ==
    /\ thr[t].pc = "idle"
    /\ Begin(t, element)

\* _render_mdi_icon lines 79-95 with _get_mdi_index lines 35-36:
\* name.startswith on a value that is not a str raises AttributeError; with
\* the cache set the lookup reads the dict the global holds now; with the
\* cache unset the caller goes on to load the metadata
Lookup(t) ==
    /\ thr[t].pc = "render"
    /\ IF CurrentName(thr[t]).t # "str"
       THEN Step(t, Rendered(thr[t], RenderResult(<<>>, Exc("AttributeError", "name", <<>>))))
       ELSE IF Cached(mdi_index)
       THEN Step(t, IndexReturned([thr[t] EXCEPT !.hit = TRUE], mdi_index.d))
       ELSE Step(t, [thr[t] EXCEPT !.pc = "open"])
    /\ UNCHANGED <<metadata, metaOk, fontOk, mdi_index, nReads, textVars>>

\* lines 42-46: open and parse the metadata source; a failure is raised as
\* ValueError and leaves the cache as it is
Open(t) ==
    /\ thr[t].pc = "open"
    /\ nReads' = nReads + 1
    /\ IF metaOk
       THEN Step(t, [thr[t] EXCEPT !.pc = "publish"])
       ELSE Step(t, IndexRaised(thr[t], Exc("ValueError", "metadata", MetaFailHead)))
    /\ UNCHANGED <<metadata, metaOk, fontOk, mdi_index, textVars>>

\* line 49: _mdi_index = {}
Publish(t) ==
    /\ thr[t].pc = "publish"
    /\ mdi_index' = IndexOf(<<>>)
    /\ Step(t, [thr[t] EXCEPT !.pc = "fill", !.k = 1, !.j = 0])
    /\ UNCHANGED <<metadata, metaOk, fontOk, nReads, textVars>>

\* p is the loop position after one step on the dict the global holds now.
\* What was stored before a record raises stays in _mdi_index; at the end of
\* the loop: lines 60-61, then line 84 on the dict returned
FillWith(t, p) ==
    /\ mdi_index' = IndexOf(p.d)
    /\ IF ~p.done THEN Step(t, [thr[t] EXCEPT !.k = p.k, !.j = p.j])
       ELSE IF Raised(p.exc) THEN Step(t, IndexRaised(thr[t], p.exc))
       ELSE Step(t, IndexReturned(thr[t], p.d))

\* lines 50-58, one step
Fill(t) ==
    /\ thr[t].pc = "fill"
    /\ FillWith(t, BuildStep(mdi_index.d, metadata, thr[t].k, thr[t].j))
    /\ UNCHANGED <<metadata, metaOk, fontOk, nReads, textVars>>

\* lines 101-111 and the handler up to its next call of _render_mdi_icon or
\* to the warning it logs
LoadFont(t) ==
    /\ thr[t].pc = "font"
    /\ Step(t, Rendered(thr[t], RenderGlyph(thr[t])))
    /\ UNCHANGED <<metadata, metaOk, fontOk, mdi_index, nReads, textVars>>

\* _LOGGER.warning of line 165 or 212 and the handler up to its next call of
\* _render_mdi_icon or to its end
Warn(t) ==
    /\ thr[t].pc = "warn"
    /\ thr' = [thr EXCEPT ![t] = [Handled(thr[t], thr[t].res)
                                      EXCEPT !.res = RenderResult(<<>>, NoExc)]]
    /\ log' = Append(log, thr'[t].warned[Len(thr[t].warned) + 1])
    /\ UNCHANGED <<metadata, metaOk, fontOk, mdi_index, nReads, textVars>>

\* The environment: an asset file becomes unreadable, or readable again,
\* before or during a dispatch
AssetsChange ==
    /\ \E t \in DOMAIN thr : thr[t].pc # "done" \/ thr[t].n < MaxDispatch
    /\ \E m \in BOOLEAN, f \in BOOLEAN :
        /\ <<m, f>> # <<metaOk, fontOk>>
        /\ metaOk' = m
        /\ fontOk' = f
    /\ UNCHANGED <<metadata, mdi_index, nReads, log, thr, textVars>>

Next ==
    \/ \E t \in Orchestrator :
        \/ \E e \in Elements : Dispatch(t, e)
        \/ Lookup(t)
        \/ Open(t)
        \/ Publish(t)
        \/ Fill(t)
        \/ LoadFont(t)
        \/ Warn(t)
    \/ AssetsChange

Spec == Init /\ [][Next]_vars

-----------------------------------------------------------------------------
(* SpecThreads: a host that embeds concurrent renders.  Every caller        *)
(* dispatches one element onto a DrawingContext of its own; the module      *)
(* global _mdi_index, the metadata source, the font file and the logger are *)
(* shared.  Callers interleave between any two steps.                       *)

ThreadElements ==
    {With(BaseIcon, "value", v) : v \in {PyStr(home), PyStr(house), PyStr(cog)}}
    \cup {BaseSequence, With(BaseSequence, "icons", <<PyStr(cog), PyStr(nope)>>)}
    \cup {Without(BaseIcon, "size")}

InitThreads ==
    /\ metadata \in {GoodMetadata, BrokenMetadata}
    /\ metaOk \in BOOLEAN
    /\ fontOk \in BOOLEAN
    /\ InitIcons(Callers)
    /\ InitText

NextThreads ==
    \E t \in Callers :
        \/ \E e \in ThreadElements : Call(t, e)
        \/ Lookup(t)
        \/ Open(t)
        \/ Publish(t)
        \/ Fill(t)
        \/ LoadFont(t)
        \/ Warn(t)

SpecThreads == InitThreads /\ [][NextThreads]_vars

(* SpecLayout: the layout of the two handlers with the assets intact, over  *)
(* every anchor, position, size, colour field combination, direction,       *)
(* spacing and icons list of the sets below                                 *)

LayoutPositions == { <<Num(50), Num(64)>>, <<Pct(50), Num(7)>>, <<Num(3), Num(0)>> }

LayoutSizes == {9, 4, 16}

Placed(p, s) == With(With(With(BaseIcon, "x", p[1]), "y", p[2]), "size", s)

AnchorElements ==
    {Placed(p, s) : p \in LayoutPositions, s \in LayoutSizes}
    \cup {With(Placed(p, s), "anchor", a) :
              p \in LayoutPositions, s \in LayoutSizes, a \in KnownAnchors \cup {"center"}}

ColorFieldValues == {"", "red", "chartreuse"}

FillFieldValues == {"", "white", "chartreuse"}

Colored(e) ==
    {e} \cup {With(e, "color", c) : c \in ColorFieldValues}
        \cup {With(e, "fill", f) : f \in FillFieldValues}
        \cup {With(With(e, "color", c), "fill", f) :
                  c \in ColorFieldValues, f \in FillFieldValues}

ColorElements == Colored(BaseIcon) \cup Colored(BaseSequence)

LayoutLists == UNION {[1..k -> {PyStr(home), PyStr(nope)}] : k \in 0..MaxIcons}

LayoutDirections == {"right", "left", "down", "up", "diagonal"}

Listed(l) == With(BaseSequence, "icons", l)

SequenceElements ==
    {Listed(l) : l \in LayoutLists}
    \cup {With(Listed(l), "direction", d) : l \in LayoutLists, d \in LayoutDirections}
    \cup {With(With(Listed(l), "direction", d), "spacing", 3) :
              l \in LayoutLists, d \in LayoutDirections}
    \cup {With(BaseSequence, "anchor", a) : a \in {"tl", "br"}}
    \cup {Listed(<<PyStr(MdiPrefix \o nope), PyStr(MdiPrefix \o cog), PyStr(house)>>)}

LayoutElements == AnchorElements \cup ColorElements \cup SequenceElements

InitLayout ==
    /\ metadata = GoodMetadata
    /\ metaOk = TRUE
    /\ fontOk = TRUE
    /\ InitIcons(Orchestrator)
    /\ InitText

NextLayout ==
    \E t \in Orchestrator :
        \/ \E e \in LayoutElements : Call(t, e)
        \/ Lookup(t)
        \/ Open(t)
        \/ Publish(t)
        \/ Fill(t)
        \/ LoadFont(t)
        \/ Warn(t)

SpecLayout == InitLayout /\ [][NextLayout]_vars

-----------------------------------------------------------------------------
(* parse_colored_text (drawcustom.elements.text): the inline colour tags    *)
(* [<color>]...[/<color>], <color> being letters or # and 3 to 8 hex digits *)

Letters == {"a", "b", "c", "d", "e", "f", "g", "h", "i", "j", "k", "l", "m", "n", "o", "p", "q", "r", "s", "t", "u", "v", "w", "x", "y", "z", "A", "B", "C", "D", "E", "F", "G", "H", "I", "J", "K", "L", "M", "N", "O", "P", "Q", "R", "S", "T", "U", "V", "W", "X", "Y", "Z"}

HexChars == {"0", "1", "2", "3", "4", "5", "6", "7", "8", "9", "a", "b", "c", "d", "e", "f", "A", "B", "C", "D", "E", "F"}

Black == <<"b", "l", "a", "c", "k">>

\* the characters of s from position i up to, not including, the first "]"
RECURSIVE UpToBracket(_, _)
UpToBracket(s, i) ==
    IF i > Len(s) \/ s[i] = "]" THEN <<>>
    ELSE <<s[i]>> \o UpToBracket(s, i + 1)

IsKeyword(c) == Len(c) >= 1 /\ \A k \in 1..Len(c) : c[k] \in Letters

IsHexToken(c) ==
    /\ Len(c) >= 4
    /\ Len(c) <= 9
    /\ c[1] = "#"
    /\ \A k \in 2..Len(c) : c[k] \in HexChars

IsColor(c) == IsKeyword(c) \/ IsHexToken(c)

\* s holds the text t at position i
HasAt(s, i, t) == i + Len(t) - 1 <= Len(s) /\ SubSeq(s, i, i + Len(t) - 1) = t

OpenTag(c) == <<"[">> \o c \o <<"]">>

CloseTag(c) == <<"[", "/">> \o c \o <<"]">>

\* the colour of the opening tag that starts at position i, <<>> when none does
OpenTagAt(s, i) ==
    IF i <= Len(s) /\ s[i] = "[" /\ IsColor(UpToBracket(s, i + 1))
          /\ HasAt(s, i, OpenTag(UpToBracket(s, i + 1)))
    THEN UpToBracket(s, i + 1)
    ELSE <<>>

\* a closing tag of colour c starts at or after position from
HasCloseFrom(s, from, c) == \E j \in from..Len(s) : HasAt(s, j, CloseTag(c))

\* A plausible bug: a segment of the colour of the one before it is merged into it.
FlushMerging(segs, buf, color) ==
    IF buf = <<>> THEN segs
    ELSE IF segs # <<>> /\ segs[Len(segs)].color = color
    THEN [segs EXCEPT ![Len(segs)].text = @ \o buf]
    ELSE Append(segs, [text |-> buf, color |-> color])

\* flush the buffer as a segment, if it is not empty
Flush(segs, buf, color) ==
    IF buf = <<>> THEN segs
    ELSE Append(segs, [text |-> buf, color |-> color])

RECURSIVE Scan(_, _, _, _, _)

\* outside a tag, c being the colour of an opening tag at position i (<<>>
\* when there is none): an opening tag that has its closing tag flushes the
\* buffer under black and switches the colour; anything else is text
ScanOutside(s, i, buf, segs, c) ==
    IF c # <<>> /\ HasCloseFrom(s, i + Len(c) + 2, c)
    THEN Scan(s, i + Len(c) + 2, c, <<>>, Flush(segs, buf, Black))
    ELSE Scan(s, i + 1, <<>>, Append(buf, s[i]), segs)

\* inside the tag of colour tag: the matching closing tag flushes the buffer
\* under the tag's colour and reverts to black; anything else is text
ScanInside(s, i, tag, buf, segs) ==
    IF HasAt(s, i, CloseTag(tag))
    THEN Scan(s, i + Len(tag) + 3, <<>>, <<>>, Flush(segs, buf, tag))
    ELSE Scan(s, i + 1, tag, Append(buf, s[i]), segs)

\* left to right from position i; tag is the colour of the tag the scan is
\* inside, <<>> outside any tag, where text is black
Scan(s, i, tag, buf, segs) ==
    IF i > Len(s) THEN Flush(segs, buf, IF tag = <<>> THEN Black ELSE tag)
    ELSE IF tag = <<>> THEN ScanOutside(s, i, buf, segs, OpenTagAt(s, i))
    ELSE ScanInside(s, i, tag, buf, segs)

ParseColoredText(s) == Scan(s, 1, <<>>, <<>>, <<>>)

(* Inputs of the parser *)

Run(t) == [kind |-> "run", color |-> <<>>, text |-> t]

Pair(c, t) == [kind |-> "pair", color |-> c, text |-> t]

Raw(t) == [kind |-> "raw", color |-> <<>>, text |-> t]

Blue == <<"b", "l", "u", "e">>

Green == <<"g", "r", "e", "e", "n">>

ShortHex == <<"#", "0", "f", "0">>

LongHex == <<"#", "0", "0", "F", "F", "A", "A">>

TagColors == {Blue, Green, ShortHex}

RunTexts == {<<>>, <<"B">>, <<"H", "e", "l", "l", "o", " ">>}

Items == {Run(t) : t \in RunTexts} \cup {Pair(c, t) : c \in TagColors, t \in RunTexts}

\* runs and pairs, no two plain runs next to each other
WellFormedSources ==
    {src \in UNION {[1..k -> Items] : k \in 0..MaxItems} :
        \A k \in 1..(Len(src) - 1) : ~(src[k].kind = "run" /\ src[k + 1].kind = "run")}

\* the inputs of tests/unit/test_text_color_parsing.py
TestSources ==
    { <<Pair(Blue, <<"B">>), Pair(Green, <<"G">>)>>,
      <<Run(<<"H", "e", "l", "l", "o", " ">>), Pair(Blue, <<"B">>)>>,
      <<Pair(ShortHex, <<"G">>), Pair(LongHex, <<"H">>)>> }

\* malformed inputs: unmatched closing tag, mismatched pair, unclosed tag
RawTexts ==
    { <<"B">> \o CloseTag(Blue),
      OpenTag(Blue) \o <<"B">> \o CloseTag(Green),
      OpenTag(Blue) \o <<"B">>,
      <<"[", "]", "B">> }

RECURSIVE Written(_, _)
\* the input string a source stands for
Written(src, k) ==
    IF k > Len(src) THEN <<>>
    ELSE (IF src[k].kind = "pair"
          THEN OpenTag(src[k].color) \o src[k].text \o CloseTag(src[k].color)
          ELSE src[k].text) \o Written(src, k + 1)

ParserInputs ==
    WellFormedSources \cup TestSources \cup {<<Raw(t)>> : t \in RawTexts}


InitParser ==
    /\ metadata = GoodMetadata
    /\ metaOk = TRUE
    /\ fontOk = TRUE
    /\ InitIcons(Orchestrator)
    /\ text_src \in ParserInputs
    /\ text_in = Written(text_src, 1)
    /\ text_out = <<>>
    /\ text_done = FALSE

\* segments = parse_colored_text(text)
Parse ==
    /\ ~text_done
    /\ text_out' = ParseColoredText(text_in)
    /\ text_done' = TRUE
    /\ UNCHANGED <<iconVars, text_in, text_src>>

NextText == Parse

SpecText == InitParser /\ [][NextText]_vars

-----------------------------------------------------------------------------
(* Properties *)

\* the dispatch of caller t has returned or raised
Done(t) == thr[t].pc = "done"

IsIcon(t) == Done(t) /\ thr[t].elem["type"] = "icon"

IsSequence(t) == Done(t) /\ thr[t].elem["type"] = "icon_sequence"

\* the dispatch got past the registry's checks and the resolvers
Validated(t) == thr[t].exc.kind \notin {"type", "field", "coordinate", "color"}

\* the pastes the dispatch added to the canvas
NewPastes(t) == SubSeq(thr[t].canvas, Len(thr[t].canvas0) + 1, Len(thr[t].canvas))

\* floor of s / 2 and of s / 4, stated without division
Half(s) == CHOOSE h \in 0..s : 2 * h <= s /\ s < 2 * h + 2

Quarter(s) == CHOOSE q \in 0..s : 4 * q <= s /\ s < 4 * q + 4

\* the anchor table: the row of anchor a for reference point (x, y), size s
AnchorRow(a, x, y, s) ==
    CASE a = "mm" -> <<x - Half(s), y - Half(s)>>
      [] a = "tl" -> <<x, y>>
      [] a = "tr" -> <<x - s, y>>
      [] a = "bl" -> <<x, y - s>>
      [] a = "br" -> <<x - s, y - s>>
      [] a = "mt" -> <<x - Half(s), y>>
      [] a = "mb" -> <<x - Half(s), y - s>>
      [] a = "lm" -> <<x, y - Half(s)>>
      [] a = "rm" -> <<x - s, y - Half(s)>>
      [] OTHER -> <<x, y>>

\* C1: in the icon handler the paste origin is the anchor table's row for
\* the element's anchor, reference point and size, halving by floor
\* division; an anchor outside the nine tags pastes at the reference point
\* and the handler does not fail.
C1_AnchorTable ==
    \A t \in DOMAIN thr :
        (IsIcon(t) /\ Validated(t) /\ Has(thr[t].elem, "anchor")) =>
            /\ ~Raised(thr[t].exc)
            /\ Len(thr[t].pastes) = 1
            /\ thr[t].pastes[1].origin =
                   AnchorRow(thr[t].elem["anchor"], thr[t].pastes[1].cursor[1],
                             thr[t].pastes[1].cursor[2], thr[t].elem["size"])
            /\ Len(NewPastes(t)) = 1
            /\ <<NewPastes(t)[1].x, NewPastes(t)[1].y>> = thr[t].pastes[1].origin

\* an odd size is halved at a middle anchor
C1_Witness ==
    \E t \in DOMAIN thr :
        /\ IsIcon(t)
        /\ Has(thr[t].elem, "anchor")
        /\ thr[t].elem["anchor"] = "rm"
        /\ thr[t].elem["size"] = 9
        /\ thr[t].pastes # <<>>
        /\ thr[t].pastes[1].cursor = <<50, 64>>
        /\ <<NewPastes(t)[1].x, NewPastes(t)[1].y>> = <<41, 60>>

\* name resolves in the icon index (after the optional prefix is removed)
Resolves(pyname) ==
    /\ ~mdi_index.isNone
    /\ (IF StartsWith(pyname.s, MdiPrefix) THEN DropPrefix(pyname.s, 4) ELSE pyname.s)
           \in DOMAIN mdi_index.d

NotResolves(pyname) == ~Resolves(pyname)

\* the last n entries of the log
LastLogged(n) == SubSeq(log, Len(log) - n + 1, Len(log))

\* C2: for every icons list (x, y, size and colour being valid),
\* icon_sequence completes without raising, pastes exactly one glyph per name
\* that resolves in the icon index, in list order, and logs exactly one skip
\* warning per name that does not resolve.
C2_SequenceSkips ==
    \A t \in DOMAIN thr :
        (IsSequence(t) /\ Validated(t)) =>
            /\ ~Raised(thr[t].exc)
            /\ [k \in 1..Len(thr[t].pastes) |-> thr[t].pastes[k].name]
                   = SelectSeq(thr[t].elem["icons"], Resolves)
            /\ Len(NewPastes(t)) = Len(SelectSeq(thr[t].elem["icons"], Resolves))
            /\ [k \in 1..Len(thr[t].warned) |-> PyStr(thr[t].warned[k].name)]
                   = SelectSeq(thr[t].elem["icons"], NotResolves)
            /\ \A k \in 1..Len(thr[t].warned) : thr[t].warned[k].kind = "skip"
            /\ LastLogged(Len(thr[t].warned)) = thr[t].warned

\* C3: a dispatch of an icon or icon_sequence element that ends in an error
\* leaves the canvas and ctx.pos_y as they were before it.
C3_ErrorLeavesCanvas ==
    \A t \in DOMAIN thr :
        (Done(t) /\ Raised(thr[t].exc)) =>
            (thr[t].canvas = thr[t].canvas0 /\ thr[t].pos_y = thr[t].pos_y0)

\* a caller is inside the loop of lines 50-58
Building == \E t \in DOMAIN thr : thr[t].pc = "fill"

\* C4: once the index is built (the cache is set and no build is under way),
\* no lookup reads the metadata source again and the cached mapping never
\* changes.
C4_CachedOnce ==
    [][(~mdi_index.isNone /\ ~Building) => (mdi_index' = mdi_index /\ nReads' = nReads)]_vars

\* a second dispatch served from the cache after exactly one read
C4_Witness ==
    \E t \in DOMAIN thr :
        /\ Done(t)
        /\ thr[t].n = 2
        /\ ~mdi_index.isNone
        /\ nReads = 1
        /\ thr[t].renders # <<>>
        /\ thr[t].renders[1].cacheHit
        /\ thr[t].renders[1].kind = "ok"

\* C5: a metadata or font load failure met while rendering an icon, in
\* either handler, is raised to the caller of the dispatch and is not
\* handled as a per-icon skip.
C5_LoadFailureFatal ==
    \A t \in DOMAIN thr :
        Done(t) =>
            \A k \in 1..Len(thr[t].renders) :
                thr[t].renders[k].kind \in {"metadata", "font"} =>
                    (Raised(thr[t].exc) /\ thr[t].exc.kind = thr[t].renders[k].kind)

\* the text of source item k, when it makes a segment
SegmentOf(item) ==
    [text |-> item.text, color |-> IF item.kind = "pair" THEN item.color ELSE Black]

HasText(item) == item.text # <<>>

WellFormed == \A k \in 1..Len(text_src) : text_src[k].kind \in {"run", "pair"}

\* C6: for an input of plain runs and well-formed pairs, parse_colored_text
\* returns, in input order, exactly one segment per non-empty run, a run
\* inside a pair under the pair's colour verbatim, a run outside under
\* "black", no empty segment, adjacent pairs unmerged.
C6_Segments ==
    (text_done /\ WellFormed) =>
        /\ Len(text_out) = Len(SelectSeq(text_src, HasText))
        /\ \A k \in 1..Len(text_out) :
               /\ text_out[k] = SegmentOf(SelectSeq(text_src, HasText)[k])
               /\ text_out[k].text # <<>>

\* two adjacent pairs of one colour
C6_Witness ==
    /\ text_done
    /\ text_src = <<Pair(Blue, <<"B">>), Pair(Blue, <<"H", "e", "l", "l", "o", " ">>)>>
    /\ Len(text_out) = 2
    /\ text_out[1].color = Blue
    /\ text_out[2].color = Blue

\* the name of render o without its "mdi:" prefix
Stripped(o) ==
    IF StartsWith(o.name.s, MdiPrefix) THEN DropPrefix(o.name.s, 4) ELSE o.name.s

\* the render o looked up a name that the index it read does not hold
Unresolved(o) == o.looked /\ Stripped(o) \notin DOMAIN o.read

\* C7 as stated: the icon-not-found message contains the requested name as
\* it was passed in, with or without the "mdi:" prefix.
C7_MessageHasPassedName ==
    \A t \in DOMAIN thr :
        \A k \in 1..Len(thr[t].renders) :
            Unresolved(thr[t].renders[k]) =>
                /\ thr[t].renders[k].kind = "notfound"
                /\ Contains(thr[t].renders[k].msg, thr[t].renders[k].name.s)

\* C7 amended: the icon-not-found message contains the requested name
\* without its "mdi:" prefix.
C7_MessageHasStrippedName ==
    \A t \in DOMAIN thr :
        \A k \in 1..Len(thr[t].renders) :
            Unresolved(thr[t].renders[k]) =>
                /\ thr[t].renders[k].kind = "notfound"
                /\ Contains(thr[t].renders[k].msg, Stripped(thr[t].renders[k]))
                /\ Contains(thr[t].renders[k].msg, NotFoundTail)

\* a prefixed name that does not resolve
C7_Witness ==
    \E t \in DOMAIN thr :
        /\ Done(t)
        /\ thr[t].renders # <<>>
        /\ thr[t].renders[1].name = PyStr(MdiPrefix \o nope)
        /\ thr[t].renders[1].kind = "notfound"
        /\ Raised(thr[t].exc)

ResolverCalled(t) == (IsIcon(t) \/ IsSequence(t)) /\ thr[t].token # NoToken

\* C8 as stated: the token is the color field's value whenever the element
\* has a color field, else the fill field's value whenever it has a fill
\* field, else "black".
C8_ColorFieldFirst ==
    \A t \in DOMAIN thr :
        ResolverCalled(t) =>
            thr[t].token = (IF Has(thr[t].elem, "color") THEN thr[t].elem["color"]
                            ELSE IF Has(thr[t].elem, "fill") THEN thr[t].elem["fill"]
                            ELSE "black")

\* C8 amended: the token is the color field's value whenever the element has
\* a non-empty color field, else the fill field's value whenever it has a
\* fill field (empty or not), else "black".
C8_NonEmptyColorFirst ==
    \A t \in DOMAIN thr :
        /\ ((IsIcon(t) \/ IsSequence(t))
                /\ thr[t].exc.kind \notin {"type", "field", "coordinate"})
               => thr[t].token # NoToken
        /\ ResolverCalled(t) =>
            thr[t].token = (IF Has(thr[t].elem, "color") /\ thr[t].elem["color"] # ""
                            THEN thr[t].elem["color"]
                            ELSE IF Has(thr[t].elem, "fill") THEN thr[t].elem["fill"]
                            ELSE "black")

\* an empty color field beside a fill field
C8_Witness ==
    \E t \in DOMAIN thr :
        /\ IsSequence(t)
        /\ Has(thr[t].elem, "color")
        /\ Has(thr[t].elem, "fill")
        /\ thr[t].elem["color"] = ""
        /\ thr[t].elem["fill"] = "white"
        /\ thr[t].token = "white"
        /\ Len(thr[t].canvas) = 2

Directions == {"right", "left", "down", "up"}

\* the cursor after k steps of d from (x, y)
Moved(d, x, y, k, step) ==
    CASE d = "right" -> <<x + k * step, y>>
      [] d = "left"  -> <<x - k * step, y>>
      [] d = "down"  -> <<x, y + k * step>>
      [] d = "up"    -> <<x, y - k * step>>

\* C9: in icon_sequence with direction d and spacing sp (size // 4 when the
\* element has no spacing field) the k-th rendered icon is pasted with the
\* cursor at the start moved by k * (size + sp) along d's axis.
C9_Cursor ==
    \A t \in DOMAIN thr :
        (IsSequence(t) /\ Validated(t) /\ Has(thr[t].elem, "direction")
            /\ thr[t].elem["direction"] \in Directions /\ thr[t].elem["x"].t = "num"
            /\ thr[t].elem["y"].t = "num") =>
            \A k \in 1..Len(thr[t].pastes) :
                thr[t].pastes[k].cursor =
                    Moved(thr[t].elem["direction"], thr[t].elem["x"].v,
                          thr[t].elem["y"].v, k - 1,
                          thr[t].elem["size"] +
                              (IF Has(thr[t].elem, "spacing") THEN thr[t].elem["spacing"]
                               ELSE Quarter(thr[t].elem["size"])))

\* a skipped icon between two rendered ones, going up with the default spacing
C9_Witness ==
    \E t \in DOMAIN thr :
        /\ IsSequence(t)
        /\ Has(thr[t].elem, "direction")
        /\ thr[t].elem["direction"] = "up"
        /\ ~Has(thr[t].elem, "spacing")
        /\ thr[t].elem["icons"] = <<PyStr(home), PyStr(nope), PyStr(home)>>
        /\ Len(thr[t].pastes) = 2
        /\ thr[t].pastes[2].cursor = <<10, 9>>

\* every name and alias of every record with a name and a codepoint is in d
IndexComplete(d) ==
    \A i \in 1..Len(metadata) :
        (metadata[i].isDict /\ metadata[i].name # <<>> /\ metadata[i].codepoint # <<>>) =>
            /\ metadata[i].name \in DOMAIN d
            /\ \A a \in 1..Len(metadata[i].aliases) :
                   metadata[i].aliases[a] # <<>> => metadata[i].aliases[a] \in DOMAIN d

\* C10: a lookup that reads the index (line 84) reads a dict that holds
\* every name and alias of the metadata, also when two callers interleave
\* during the first build and after a build that stopped with an exception
\* part-way.
C10_NoPartialIndex ==
    \A t \in DOMAIN thr :
        \A k \in 1..Len(thr[t].renders) :
            thr[t].renders[k].looked => IndexComplete(thr[t].renders[k].read)

====
